---- MODULE Spec2Model ----
(***************************************************************************)
(* Text 2 Image Studio: the App component's state (images, prompt,        *)
(* isGenerating, isEditingId, error, theme, activePage), its handlers,     *)
(* its two localStorage effects and the generate / edit calls in flight.   *)
(*                                                                         *)
(* React runs one event at a time: a handler's synchronous part, the       *)
(* re-render and the effects that re-render triggers are one step.  The    *)
(* part of an async handler after its await is a second step, taken when   *)
(* the network call settles; it reads the variables its closure captured   *)
(* when the handler was invoked.                                           *)
(***************************************************************************)
EXTENDS Bags, FiniteSets, Integers, Sequences, TLC

(***************************************************************************)
(* Bounds of the model.                                                    *)
(***************************************************************************)
MaxImages == 2
MaxInFlightEdits == 2
MaxAnnotations == 1

(***************************************************************************)
(* Values.  A field of type string | null is None or Some(s).              *)
(***************************************************************************)
None == <<>>
Some(s) == <<s>>

\* Math.random().toString(36).substr(2, 9): any of the id strings.
Ids == {"k3j9x0q1z", "p0z8f2m4c"}
\* Image references the service returns for a generation and for an edit.
GenerateRefs == {"img://1"}
EditRefs == {"img://2"}
\* Date.now() in this session; the records of an earlier session are older.
Now == 2
\* What the user can type into the prompt textarea.
Prompts == {"", " ", " fox"}
\* What the user can type into a card's edit input.
Instructions == {"", " ", "blue"}
\* err.message of a rejected call.
ErrMessages == {"", "quota"}
\* Of the six pages, home and one other: the other five render none of the
\* handlers of the model and differ from each other in markup only.
Pages == {"home", "about"}

GenerateFallback == "Failed to generate image. Please check your API key and try again."
EditPrefix == "Editing failed: "

(***************************************************************************)
(* Strings.                                                                *)
(***************************************************************************)
Ch(s, i) == SubSeq(s, i, i)

IsSpace(c) == c \in {" ", "\t", "\n", "\r"}

RECURSIVE TrimStart(_)
TrimStart(s) ==
    IF Len(s) > 0 /\ IsSpace(Ch(s, 1)) THEN TrimStart(SubSeq(s, 2, Len(s))) ELSE s

RECURSIVE TrimEnd(_)
TrimEnd(s) ==
    IF Len(s) > 0 /\ IsSpace(Ch(s, Len(s))) THEN TrimEnd(SubSeq(s, 1, Len(s) - 1)) ELSE s

\* String.prototype.trim
Trim(s) == TrimEnd(TrimStart(s))

\* !s.trim()
IsBlank(s) == Trim(s) = ""

StartsWith(s, p) == Len(s) >= Len(p) /\ SubSeq(s, 1, Len(p)) = p

(***************************************************************************)
(* JSON.  A JS value is [kind |-> "array", v |-> sequence] or, for the     *)
(* other kinds, [kind |-> k]; an image record is a TLA+ record.  The       *)
(* strings of the model hold no quote, backslash or control character, so  *)
(* JSON.stringify writes them between quotes unescaped.                    *)
(***************************************************************************)
JArray(s) == [kind |-> "array", v |-> s]

IsArray(x) == x.kind = "array"

Quote(s) == "\"" \o s \o "\""

StringifyImage(img) ==
    "{\"id\":" \o Quote(img.id) \o ",\"url\":" \o Quote(img.url)
        \o ",\"prompt\":" \o Quote(img.prompt)
        \o ",\"timestamp\":" \o ToString(img.timestamp) \o "}"

RECURSIVE JoinImages(_)
JoinImages(s) ==
    IF Len(s) = 0 THEN ""
    ELSE IF Len(s) = 1 THEN StringifyImage(s[1])
    ELSE StringifyImage(s[1]) \o "," \o JoinImages(Tail(s))

\* JSON.stringify(images)
Stringify(x) ==
    IF IsArray(x) THEN "[" \o JoinImages(x.v) \o "]"
    ELSE IF x.kind = "null" THEN "null"
    ELSE IF x.kind = "object" THEN "{}"
    ELSE "0"

Digits == <<"0", "1", "2", "3", "4", "5", "6", "7", "8", "9">>

IsDigit(c) == \E d \in 1..10 : Digits[d] = c

DigitVal(c) == (CHOOSE d \in 1..10 : Digits[d] = c) - 1

RECURSIVE ScanDigits(_, _)
ScanDigits(s, i) ==
    IF i <= Len(s) /\ IsDigit(Ch(s, i)) THEN ScanDigits(s, i + 1) ELSE i

RECURSIVE NatOf(_)
NatOf(s) ==
    IF s = "" THEN 0
    ELSE NatOf(SubSeq(s, 1, Len(s) - 1)) * 10 + DigitVal(Ch(s, Len(s)))

\* Index of the quote closing a string that starts before i, or 0.
RECURSIVE ScanString(_, _)
ScanString(s, i) ==
    IF i > Len(s) THEN 0
    ELSE IF Ch(s, i) = "\"" THEN i
    ELSE ScanString(s, i + 1)

SyntaxError == [ok |-> FALSE, kind |-> "error", v |-> <<>>, next |-> 0]

Parsed(k, val, n) == [ok |-> TRUE, kind |-> k, v |-> val, next |-> n]

At(s, i, c) == i <= Len(s) /\ Ch(s, i) = c

RECURSIVE ParseValue(_, _)
RECURSIVE ParseElements(_, _, _)
RECURSIVE ParseMembers(_, _, _)

ParseValue(s, i) ==
    IF i > Len(s) THEN SyntaxError
    ELSE IF i + 3 <= Len(s) /\ SubSeq(s, i, i + 3) = "null"
        THEN Parsed("null", <<>>, i + 4)
    ELSE IF IsDigit(Ch(s, i))
        THEN LET j == ScanDigits(s, i)
             IN  Parsed("number", NatOf(SubSeq(s, i, j - 1)), j)
    ELSE IF Ch(s, i) = "\""
        THEN LET j == ScanString(s, i + 1)
             IN  IF j = 0 THEN SyntaxError
                 ELSE Parsed("string", SubSeq(s, i + 1, j - 1), j + 1)
    ELSE IF Ch(s, i) = "["
        THEN IF At(s, i + 1, "]") THEN Parsed("array", <<>>, i + 2)
             ELSE ParseElements(s, i + 1, <<>>)
    ELSE IF Ch(s, i) = "{"
        THEN IF At(s, i + 1, "}") THEN Parsed("object", <<>>, i + 2)
             ELSE ParseMembers(s, i + 1, <<>>)
    ELSE SyntaxError

ParseElements(s, i, acc) ==
    LET e == ParseValue(s, i)
    IN  IF ~e.ok THEN SyntaxError
        ELSE IF At(s, e.next, ",") THEN ParseElements(s, e.next + 1, Append(acc, e.v))
        ELSE IF At(s, e.next, "]") THEN Parsed("array", Append(acc, e.v), e.next + 1)
        ELSE SyntaxError

ParseMembers(s, i, acc) ==
    IF ~At(s, i, "\"") THEN SyntaxError
    ELSE LET k == ParseValue(s, i)
         IN  IF ~k.ok \/ ~At(s, k.next, ":") THEN SyntaxError
             ELSE LET e == ParseValue(s, k.next + 1)
                      obj == [f \in DOMAIN acc \cup {k.v} |->
                                 IF f = k.v THEN e.v ELSE acc[f]]
                  IN  IF ~e.ok THEN SyntaxError
                      ELSE IF At(s, e.next, ",") THEN ParseMembers(s, e.next + 1, obj)
                      ELSE IF At(s, e.next, "}") THEN Parsed("object", obj, e.next + 1)
                      ELSE SyntaxError

\* JSON.parse(text): ok = FALSE when it throws.
Parse(s) ==
    LET r == ParseValue(s, 1)
    IN  IF r.ok /\ r.next = Len(s) + 1 THEN r ELSE SyntaxError

\* The JS value a successful parse returns.
ParsedValue(r) == IF r.kind = "array" THEN JArray(r.v) ELSE [kind |-> r.kind]

(***************************************************************************)
(* Image records and the array operations of the handlers.                 *)
(***************************************************************************)
\* types: GeneratedImage
GeneratedImage(id, url, p, t) == [id |-> id, url |-> url, prompt |-> p, timestamp |-> t]

\* Variant: the new record is put behind the others.
AppendImage(newImage, prev) == prev \o <<newImage>>

\* [newImage, ...prev]
PrependImage(newImage, prev) == <<newImage>> \o prev

\* Variant: when no record has the id, the newest record is taken instead.
FindImageOrNewest(s, id) ==
    LET hits == {j \in 1..Len(s) : s[j].id = id}
    IN  IF hits = {} THEN (IF Len(s) = 0 THEN None ELSE Some(s[1]))
        ELSE Some(s[CHOOSE j \in hits : \A k \in hits : j <= k])

\* images.find(img => img.id === id): None when there is none.
FindImage(s, id) ==
    LET hits == {j \in 1..Len(s) : s[j].id = id}
    IN  IF hits = {} THEN None
        ELSE Some(s[CHOOSE j \in hits : \A k \in hits : j <= k])

\* `${targetImage.prompt} (Edit: ${editPrompt})`
EditedPrompt(oldPrompt, editPrompt) == oldPrompt \o " (Edit: " \o editPrompt \o ")"

\* Variant: the edited record is given another id.
UpdatedImageNewId(targetImage, newUrl, editPrompt, t) ==
    GeneratedImage(CHOOSE id \in Ids : id # targetImage.id, newUrl,
                   EditedPrompt(targetImage.prompt, editPrompt), t)

\* { ...targetImage, url: newUrl, prompt: ..., timestamp: Date.now() }
UpdatedImage(targetImage, newUrl, editPrompt, t) ==
    [targetImage EXCEPT !.url = newUrl,
                        !.prompt = EditedPrompt(targetImage.prompt, editPrompt),
                        !.timestamp = t]

\* Variant: the edited record is moved to the front.
ReplaceByIdMoveToFront(prev, id, updatedImage) ==
    LET Other(img) == img.id # id
    IN  <<updatedImage>> \o SelectSeq(prev, Other)

\* prev.map(img => img.id === id ? updatedImage : img)
ReplaceById(prev, id, updatedImage) ==
    [j \in 1..Len(prev) |-> IF prev[j].id = id THEN updatedImage ELSE prev[j]]

\* Variant: no fallback text.
GenerateErrorTextNoFallback(message) == message

\* err.message || 'Failed to generate image. ...'
GenerateErrorText(message) == IF message = "" THEN GenerateFallback ELSE message

\* `Editing failed: ${err.message}`
EditErrorText(message) == EditPrefix \o message

\* Variant: the in-progress flag is not consulted.
GenerateRejectedNoBusyCheck(p, generating) == IsBlank(p)

\* Variant: the prompt is not trimmed.
GenerateRejectedNoTrim(p, generating) == p = "" \/ generating

\* handleGenerate's early return: !prompt.trim() || isGenerating
GenerateRejected(p, generating) == IsBlank(p) \/ generating

\* handleEditSubmit's early return: !editPrompt.trim() || isEditing
EditSubmitRejected(editPrompt, isEditing) == IsBlank(editPrompt) \/ isEditing

\* Number of edit annotations a prompt text carries.
RECURSIVE Annotations(_)
Annotations(p) ==
    IF Len(p) < Len(" (Edit: ") THEN 0
    ELSE (IF StartsWith(p, " (Edit: ") THEN 1 ELSE 0) + Annotations(SubSeq(p, 2, Len(p)))

(***************************************************************************)
(* State.                                                                  *)
(***************************************************************************)
VARIABLES
    pc,             \* "mount", "loaded", "saved", "ready" or "crashed"
    bootStore,      \* what the key held when the application started (kept
                    \* until startup has settled; no variable of the program)
    rerender,       \* a state update is queued for the next render
    store,          \* localStorage.getItem('text2image-images')
    images,         \* useState<GeneratedImage[]>([])
    prompt,         \* useState('')
    isGenerating,   \* useState(false)
    isEditingId,    \* useState<string | null>(null)
    error,          \* useState<string | null>(null)
    theme,          \* useState<'dark' | 'light'>('dark')
    activePage,     \* useState<Page>('home')
    genCalls,       \* generateImageFromText calls in flight, with their closures
    editCalls       \* editExistingImage calls in flight, with their closures

vars == <<pc, bootStore, rerender, store, images, prompt, isGenerating, isEditingId, error,
          theme, activePage, genCalls, editCalls>>

Add(bag, c) == bag (+) SetToBag({c})

Remove(bag, c) == bag (-) SetToBag({c})

(***************************************************************************)
(* What a previous session can have left under the storage key.            *)
(***************************************************************************)
StoredFox == GeneratedImage("k3j9x0q1z", "img://1", " fox", 1)

StoredEdited == GeneratedImage("p0z8f2m4c", "img://2", " fox (Edit: blue)", 1)

StoredSequences ==
    {<<>>, <<StoredFox>>, <<StoredEdited>>, <<StoredFox, StoredEdited>>,
     <<StoredEdited, StoredFox>>}

\* Texts JSON.parse rejects.
UnparseableTexts == {"{oops", "[{\"id\":"}

\* Texts JSON.parse accepts that are no array.
OtherStructureTexts == {"null", "7", "{}"}

InitialStores ==
    {None} \cup {Some(t) : t \in {""} \cup UnparseableTexts \cup OtherStructureTexts}
           \cup {Some(Stringify(JArray(S))) : S \in StoredSequences}

AtBoot(text) == [settled |-> FALSE, text |-> text]

Settled == [settled |-> TRUE, text |-> None]

Init ==
    /\ pc = "mount"
    /\ store \in InitialStores
    /\ bootStore = AtBoot(store)
    /\ rerender = FALSE
    /\ images = JArray(<<>>)
    /\ prompt = ""
    /\ isGenerating = FALSE
    /\ isEditingId = None
    /\ error = None
    /\ theme = "dark"
    /\ activePage = "home"
    /\ genCalls = EmptyBag
    /\ editCalls = EmptyBag

(***************************************************************************)
(* Startup: the two effects of the first commit, then the re-render.       *)
(***************************************************************************)
\* The value the load effect passes to setImages, None when it calls it not.
LoadedImages(saved) ==
    IF saved = None \/ saved[1] = "" THEN None
    ELSE LET r == Parse(saved[1])
         IN  IF r.ok THEN Some(ParsedValue(r)) ELSE None

LoadEffect ==
    /\ pc = "mount"
    /\ LET loaded == LoadedImages(store)
       IN  IF loaded = None
             THEN UNCHANGED <<images, rerender>>
             ELSE images' = loaded[1] /\ rerender' = TRUE
    /\ pc' = "loaded"
    /\ UNCHANGED <<bootStore, store, prompt, isGenerating, isEditingId, error, theme, activePage,
                   genCalls, editCalls>>

\* The save effect of the first commit: its closure holds the initial images.
InitialSaveEffect ==
    /\ pc = "loaded"
    /\ store' = Some(Stringify(JArray(<<>>)))
    /\ pc' = "saved"
    /\ UNCHANGED <<bootStore, rerender, images, prompt, isGenerating, isEditingId, error, theme,
                   activePage, genCalls, editCalls>>

\* renderHome reads images.length and calls images.map: it throws unless
\* images is an array.
RenderThrows(x) == ~IsArray(x)

\* Variant: the effect has no dependency and saves what the first render saw.
SaveEffectOnMountOnly(x) == Some(Stringify(JArray(<<>>)))

\* localStorage.setItem('text2image-images', JSON.stringify(images))
SaveEffect(x) == Some(Stringify(x))

Rerender ==
    /\ pc = "saved"
    /\ rerender' = FALSE
    /\ bootStore' = Settled
    /\ IF ~rerender THEN pc' = "ready" /\ UNCHANGED store
       ELSE IF RenderThrows(images) THEN pc' = "crashed" /\ UNCHANGED store
       ELSE pc' = "ready" /\ store' = SaveEffect(images)
    /\ UNCHANGED <<images, prompt, isGenerating, isEditingId, error, theme, activePage,
                   genCalls, editCalls>>

(***************************************************************************)
(* Events of the home page.                                                *)
(***************************************************************************)
Mounted == pc = "ready"

\* onChange of the prompt textarea
TypePrompt(p) ==
    /\ Mounted /\ activePage = "home"
    /\ prompt' = p
    /\ UNCHANGED <<pc, bootStore, rerender, store, images, isGenerating, isEditingId, error, theme,
                   activePage, genCalls, editCalls>>

HandleGenerate ==
    /\ Mounted /\ activePage = "home"
    /\ IF GenerateRejected(prompt, isGenerating)
         THEN UNCHANGED vars
         ELSE /\ Len(images.v) + BagCardinality(genCalls) < MaxImages
              /\ isGenerating' = TRUE
              /\ error' = None
              /\ genCalls' = Add(genCalls, [prompt |-> prompt])
              /\ UNCHANGED <<pc, bootStore, rerender, store, images, prompt, isEditingId, theme,
                             activePage, editCalls>>

\* Variant: the prompt is cleared only if it is still the submitted text.
GenerateSucceedsKeepsTyped(c, url, id, t) ==
    /\ Mounted
    /\ BagIn(c, genCalls)
    /\ images' = JArray(PrependImage(GeneratedImage(id, url, c.prompt, t), images.v))
    /\ prompt' = IF prompt = c.prompt THEN "" ELSE prompt
    /\ isGenerating' = FALSE
    /\ store' = SaveEffect(images')
    /\ genCalls' = Remove(genCalls, c)
    /\ UNCHANGED <<pc, bootStore, rerender, isEditingId, error, theme, activePage, editCalls>>

\* The await of handleGenerate returns url.
GenerateSucceeds(c, url, id, t) ==
    /\ Mounted
    /\ BagIn(c, genCalls)
    /\ images' = JArray(PrependImage(GeneratedImage(id, url, c.prompt, t), images.v))
    /\ prompt' = ""
    /\ isGenerating' = FALSE
    /\ store' = SaveEffect(images')
    /\ genCalls' = Remove(genCalls, c)
    /\ UNCHANGED <<pc, bootStore, rerender, isEditingId, error, theme, activePage, editCalls>>

\* Variant: the flag is cleared on success only (no finally).
GenerateFailsFlagKept(c, message) ==
    /\ Mounted
    /\ BagIn(c, genCalls)
    /\ error' = Some(GenerateErrorText(message))
    /\ genCalls' = Remove(genCalls, c)
    /\ UNCHANGED <<pc, bootStore, rerender, store, images, prompt, isGenerating,
                   isEditingId, theme, activePage, editCalls>>

\* The await of handleGenerate throws err.
GenerateFails(c, message) ==
    /\ Mounted
    /\ BagIn(c, genCalls)
    /\ error' = Some(GenerateErrorText(message))
    /\ isGenerating' = FALSE
    /\ genCalls' = Remove(genCalls, c)
    /\ UNCHANGED <<pc, bootStore, rerender, store, images, prompt, isEditingId, theme, activePage,
                   editCalls>>

\* handleEdit(id, editPrompt) up to its await.
HandleEdit(id, editPrompt) ==
    LET targetImage == FindImage(images.v, id)
    IN  IF targetImage = None
          THEN UNCHANGED vars
          ELSE /\ BagCardinality(editCalls) < MaxInFlightEdits
               /\ Annotations(targetImage[1].prompt) < MaxAnnotations
               /\ isEditingId' = Some(id)
               /\ error' = None
               /\ editCalls' = Add(editCalls, [id |-> id, editPrompt |-> editPrompt,
                                               targetImage |-> targetImage[1]])
               /\ UNCHANGED <<pc, bootStore, rerender, store, images, prompt, isGenerating, theme,
                              activePage, genCalls>>

\* handleEditSubmit of the card of images[i], with editPrompt typed into it.
HandleEditSubmit(i, editPrompt) ==
    /\ Mounted /\ activePage = "home"
    /\ i \in 1..Len(images.v)
    /\ IF EditSubmitRejected(editPrompt, isEditingId = Some(images.v[i].id))
         THEN UNCHANGED vars
         ELSE HandleEdit(images.v[i].id, editPrompt)

\* handleEdit invoked with an id that no record of images carries: the early
\* return after images.find.
HandleEditNoCard(id, editPrompt) ==
    /\ Mounted /\ activePage = "home"
    /\ \A j \in 1..Len(images.v) : images.v[j].id # id
    /\ HandleEdit(id, editPrompt)

\* Variant: the edited record is written into the array in place, so the
\* images reference is the same and the save effect does not run.
EditSucceedsInPlace(c, newUrl, t) ==
    /\ Mounted
    /\ BagIn(c, editCalls)
    /\ images' = JArray(ReplaceById(images.v, c.id,
                            UpdatedImage(c.targetImage, newUrl, c.editPrompt, t)))
    /\ isEditingId' = None
    /\ editCalls' = Remove(editCalls, c)
    /\ UNCHANGED <<pc, bootStore, rerender, store, prompt, isGenerating, error, theme, activePage,
                   genCalls>>

\* The await of handleEdit returns newUrl.
EditSucceeds(c, newUrl, t) ==
    /\ Mounted
    /\ BagIn(c, editCalls)
    /\ images' = JArray(ReplaceById(images.v, c.id,
                            UpdatedImage(c.targetImage, newUrl, c.editPrompt, t)))
    /\ isEditingId' = None
    /\ store' = SaveEffect(images')
    /\ editCalls' = Remove(editCalls, c)
    /\ UNCHANGED <<pc, bootStore, rerender, prompt, isGenerating, error, theme, activePage, genCalls>>

\* The await of handleEdit throws err.
EditFails(c, message) ==
    /\ Mounted
    /\ BagIn(c, editCalls)
    /\ error' = Some(EditErrorText(message))
    /\ isEditingId' = None
    /\ editCalls' = Remove(editCalls, c)
    /\ UNCHANGED <<pc, bootStore, rerender, store, images, prompt, isGenerating, theme, activePage,
                   genCalls>>

\* Variant: a confirmed clear removes the newest record only.
ClearHistoryDropsNewest(confirmed) ==
    /\ Mounted /\ activePage = "home"
    /\ Len(images.v) > 0
    /\ IF confirmed
         THEN images' = JArray(Tail(images.v)) /\ store' = SaveEffect(images')
         ELSE UNCHANGED <<images, store>>
    /\ UNCHANGED <<pc, bootStore, rerender, prompt, isGenerating, isEditingId, error, theme,
                   activePage, genCalls, editCalls>>

\* clearHistory, with the answer to window.confirm
ClearHistory(confirmed) ==
    /\ Mounted /\ activePage = "home"
    /\ Len(images.v) > 0
    /\ IF confirmed
         THEN images' = JArray(<<>>) /\ store' = SaveEffect(images')
         ELSE UNCHANGED <<images, store>>
    /\ UNCHANGED <<pc, bootStore, rerender, prompt, isGenerating, isEditingId, error, theme,
                   activePage, genCalls, editCalls>>

ToggleTheme ==
    /\ Mounted
    /\ theme' = IF theme = "dark" THEN "light" ELSE "dark"
    /\ UNCHANGED <<pc, bootStore, rerender, store, images, prompt, isGenerating, isEditingId, error,
                   activePage, genCalls, editCalls>>

\* setActivePage(page)
Navigate(page) ==
    /\ Mounted
    /\ activePage' = page
    /\ UNCHANGED <<pc, bootStore, rerender, store, images, prompt, isGenerating, isEditingId, error,
                   theme, genCalls, editCalls>>

GenerateSettles ==
    \E c \in BagToSet(genCalls) :
        \/ \E url \in GenerateRefs, id \in Ids : GenerateSucceeds(c, url, id, Now)
        \/ \E message \in ErrMessages : GenerateFails(c, message)

EditSettles ==
    \E c \in BagToSet(editCalls) :
        \/ \E newUrl \in EditRefs : EditSucceeds(c, newUrl, Now)
        \/ \E message \in ErrMessages : EditFails(c, message)

Next ==
    \/ LoadEffect
    \/ InitialSaveEffect
    \/ Rerender
    \/ \E p \in Prompts : TypePrompt(p)
    \/ HandleGenerate
    \/ \E i \in 1..MaxImages, editPrompt \in Instructions : HandleEditSubmit(i, editPrompt)
    \/ \E id \in Ids, editPrompt \in Instructions : HandleEditNoCard(id, editPrompt)
    \/ GenerateSettles
    \/ EditSettles
    \/ \E confirmed \in BOOLEAN : ClearHistory(confirmed)
    \/ ToggleTheme
    \/ \E page \in Pages : Navigate(page)

Spec == Init /\ [][Next]_vars

\* Every call in flight settles.
LiveSpec == Spec /\ WF_vars(GenerateSettles) /\ WF_vars(EditSettles)

(***************************************************************************)
(* Properties.                                                             *)
(***************************************************************************)
Outstanding(bag) == BagCardinality(bag)

IdsOf(s) == [j \in 1..Len(s) |-> s[j].id]

UniqueId(s, id) == Cardinality({j \in 1..Len(s) : s[j].id = id}) = 1

\* C1: a submit while a generation is in progress issues no call and leaves
\* images, prompt, error and isGenerating as they are; at most one generate
\* call is outstanding at any time.
C1_SubmitWhileGeneratingIsNoOp ==
    /\ [](Outstanding(genCalls) <= 1)
    /\ [][isGenerating =>
            /\ Outstanding(genCalls') <= Outstanding(genCalls)
            /\ (HandleGenerate => UNCHANGED <<images, prompt, error, isGenerating>>)]_vars

\* C1 witness: the submit handler can be invoked with a non-blank prompt
\* while a generation is in flight.
C1_Witness ==
    /\ Mounted /\ activePage = "home"
    /\ isGenerating /\ Outstanding(genCalls) = 1
    /\ ~IsBlank(prompt)
    /\ Len(images.v) + Outstanding(genCalls) < MaxImages

\* C2: the records of images have pairwise distinct ids in every reachable
\* state.
C2_IdsPairwiseDistinct ==
    IsArray(images) =>
        \A i, j \in 1..Len(images.v) : i # j => images.v[i].id # images.v[j].id

\* C3: when a successful edit of image X (the only record with its id) is
\* applied, X's url becomes the returned reference and X's prompt becomes its
\* prompt immediately before the step followed by " (Edit: " + i + ")".
C3_EditAnnotatesCurrentPrompt ==
    [][\A c \in BagToSet(editCalls), newUrl \in EditRefs :
         EditSucceeds(c, newUrl, Now) =>
            \A j \in 1..Len(images.v) :
                (images.v[j].id = c.id /\ UniqueId(images.v, c.id)) =>
                    /\ images'.v[j].url = newUrl
                    /\ images'.v[j].prompt = EditedPrompt(images.v[j].prompt, c.editPrompt)]_vars

\* C4: when the key holds the serialization of a sequence S at startup, the
\* re-render that settles startup leaves images = S and the serialization of
\* S under the key again.
C4_StartupRoundTrip ==
    [][pc = "saved" =>
         \A S \in StoredSequences :
            bootStore = AtBoot(Some(Stringify(JArray(S)))) =>
                /\ pc' = "ready"
                /\ images' = JArray(S)
                /\ store' = Some(Stringify(JArray(S)))]_vars

\* C4 witness: startup has settled on a stored sequence of two records, and
\* the key holds its serialization.
C4_Witness ==
    /\ pc = "ready"
    /\ images = JArray(<<StoredFox, StoredEdited>>)
    /\ store = Some(Stringify(images))

NotASerializedSequence(text) ==
    \/ text = None
    \/ text # None /\ text[1] \in UnparseableTexts \cup OtherStructureTexts

\* C5: when the key is absent or holds text that is no serialized sequence of
\* image records, images is the empty sequence after the load effect and
\* startup raises no error.
C5_CorruptStoreLoadsEmpty ==
    (~bootStore.settled /\ NotASerializedSequence(bootStore.text)) =>
        /\ images = JArray(<<>>)
        /\ pc # "crashed"

\* C6: every state with isGenerating = TRUE is followed by one with
\* isGenerating = FALSE, and every state with isEditingId set by one with
\* isEditingId = null, when every call in flight settles.
C6_InProgressEventuallyCleared ==
    /\ isGenerating ~> ~isGenerating
    /\ (isEditingId # None) ~> (isEditingId = None)

\* C6 witness: a generation and an edit are in progress.
C6_Witness == isGenerating /\ isEditingId # None /\ Outstanding(editCalls) = 2

\* C7: applying a successful edit of id X keeps the length and the order of
\* images and every id, and keeps every record whose id is not X as it is.
C7_EditFrame ==
    [][\A c \in BagToSet(editCalls), newUrl \in EditRefs :
         EditSucceeds(c, newUrl, Now) =>
            /\ Len(images'.v) = Len(images.v)
            /\ IdsOf(images'.v) = IdsOf(images.v)
            /\ \A j \in 1..Len(images.v) :
                   images.v[j].id # c.id => images'.v[j] = images.v[j]]_vars

\* C7 witness: of two records, the second was edited in this session and the
\* first was not.
C7_Witness ==
    /\ Mounted
    /\ Len(images.v) = 2
    /\ images.v[1].id # images.v[2].id
    /\ Annotations(images.v[1].prompt) = 0
    /\ Annotations(images.v[2].prompt) = 1 /\ images.v[2].timestamp = Now

\* C8: when a generate call succeeds with reference r, images becomes the new
\* record, with url r and the prompt as submitted, followed by images as it
\* was when the result is applied.
C8_GenerationPrepends ==
    [][\A c \in BagToSet(genCalls), url \in GenerateRefs, id \in Ids :
         GenerateSucceeds(c, url, id, Now) =>
            /\ Len(images'.v) = Len(images.v) + 1
            /\ Head(images'.v).url = url
            /\ Head(images'.v).prompt = c.prompt
            /\ Tail(images'.v) = images.v]_vars

\* C8 witness: a record generated in this session stands before a record
\* restored from storage.
C8_Witness ==
    /\ Mounted
    /\ Len(images.v) = 2
    /\ images.v[1].timestamp = Now /\ images.v[1].url \in GenerateRefs
    /\ images.v[1].prompt = " fox"
    /\ images.v[2] = StoredEdited

\* C9: while the prompt is empty or whitespace only, no step issues a generate
\* call, and a submit changes neither images nor isGenerating nor error.
C9_BlankPromptIsNoOp ==
    [][IsBlank(prompt) =>
         /\ Outstanding(genCalls') <= Outstanding(genCalls)
         /\ (HandleGenerate => UNCHANGED <<images, isGenerating, error>>)]_vars

\* C9 witness: the submit handler can be invoked with a whitespace-only
\* prompt while an error is shown and nothing is in progress.
C9_Witness ==
    /\ Mounted /\ activePage = "home"
    /\ prompt = " " /\ ~isGenerating /\ error # None
    /\ Len(images.v) + Outstanding(genCalls) < MaxImages

\* C10: a failed generate call leaves images as it is and sets error to a
\* non-empty message; a failed edit call leaves every record as it is and
\* sets error to a message that begins with "Editing failed: ".
C10_FailureKeepsImages ==
    [][/\ \A c \in BagToSet(genCalls), message \in ErrMessages :
            GenerateFails(c, message) =>
                images' = images /\ error' # None /\ error'[1] # ""
       /\ \A c \in BagToSet(editCalls), message \in ErrMessages :
            EditFails(c, message) =>
                images' = images /\ error' # None /\ StartsWith(error'[1], EditPrefix)]_vars

\* C10 witness: a generate call failed with an empty message while images
\* held a record.
C10_Witness ==
    /\ Mounted
    /\ error = Some(GenerateFallback)
    /\ ~isGenerating
    /\ Len(images.v) > 0

\* C11: a confirmed clearHistory empties images whatever its size, a declined
\* one leaves images as it is, and both leave prompt, error, isGenerating,
\* isEditingId, theme and activePage as they are.
C11_ClearHistoryEmptiesOnlyImages ==
    [][\A confirmed \in BOOLEAN :
         ClearHistory(confirmed) =>
            /\ (confirmed => images' = JArray(<<>>))
            /\ (~confirmed => images' = images)
            /\ UNCHANGED <<prompt, error, isGenerating, isEditingId, theme, activePage>>]_vars

\* C11 witness: images was emptied while it held the target of an edit that
\* is still in flight, with the rest of the state in use.
C11_Witness ==
    /\ Mounted
    /\ images = JArray(<<>>) /\ store = Some("[]")
    /\ Outstanding(editCalls) = 2
    /\ isEditingId # None /\ isGenerating /\ prompt = " " /\ theme = "light"

\* C12: an edit submission whose id no record of images carries, or whose
\* instruction is empty or whitespace only, issues no call and leaves images,
\* isEditingId and error as they are: a step that changes any of these is
\* not such a submission.
C12_UnknownIdOrBlankInstructionRejected ==
    [][\/ UNCHANGED <<images, isEditingId, error, editCalls, genCalls>>
       \/ /\ \A id \in Ids, editPrompt \in Instructions :
               (\A j \in 1..Len(images.v) : images.v[j].id # id)
                  => ~(Mounted /\ HandleEdit(id, editPrompt))
          /\ \A i \in 1..MaxImages, editPrompt \in Instructions :
               IsBlank(editPrompt) => ~HandleEditSubmit(i, editPrompt)]_vars

\* C12 witness: one record is shown, the other id is carried by no record, an
\* error is displayed and no edit is in flight, so an accepted submission
\* would show in isEditingId, error and the calls.
C12_Witness ==
    /\ Mounted /\ activePage = "home"
    /\ Len(images.v) = 1 /\ images.v[1].id = "k3j9x0q1z"
    /\ isEditingId = None /\ error = Some(EditErrorText("quota"))
    /\ Outstanding(editCalls) = 0

\* C13: at most one edit call is outstanding at any time, whichever records
\* the submissions were for (stated for collections whose ids are distinct).
C13_AtMostOneEditOutstanding ==
    (Mounted /\ \A j \in 1..Len(images.v) : UniqueId(images.v, images.v[j].id))
        => Outstanding(editCalls) <= 1

\* C14: between events, once the application is mounted, the value stored
\* under 'text2image-images' is the serialization of the current images:
\* every change of images has been followed by a full overwrite of the key.
C14_StoreIsSerializedImages ==
    Mounted => store = Some(Stringify(images))

\* C14 witness: the stored text is the serialization of a sequence that a
\* generation and then an edit of the restored record have changed.
C14_Witness ==
    /\ Mounted
    /\ Len(images.v) = 2
    /\ images.v[1].timestamp = Now /\ images.v[1].url \in GenerateRefs
    /\ images.v[2].id # images.v[1].id
    /\ images.v[2].timestamp = Now /\ images.v[2].url \in EditRefs
    /\ store = Some(Stringify(images))

\* C15: once the application is mounted, every step keeps the ids of images
\* and their order, or puts exactly one record in front of the unchanged
\* others, or empties images; no step removes one record or changes the id
\* of a record that stays.
C15_IdsKeptPrependedOrEmptied ==
    [][Mounted =>
         \/ IdsOf(images'.v) = IdsOf(images.v)
         \/ /\ Len(images'.v) = Len(images.v) + 1
            /\ Tail(images'.v) = images.v
         \/ images'.v = <<>>]_vars

\* C15 witness: the restored records were emptied while an edit of one of
\* them was in flight, and two generations have each put a record in front.
C15_Witness ==
    /\ Mounted
    /\ Len(images.v) = 2
    /\ \A j \in 1..2 : images.v[j].timestamp = Now /\ images.v[j].url \in GenerateRefs
    /\ images.v[1].id # images.v[2].id
    /\ \E c \in BagToSet(editCalls) : c.targetImage.timestamp = 1

\* C16: when a generate call succeeds the prompt becomes the empty string,
\* whatever was typed while the call was in flight; when the call fails, and
\* when a submission is made (accepted or rejected), the prompt is left as
\* it is.
C16_PromptClearedOnSuccessOnly ==
    [][/\ \A c \in BagToSet(genCalls), url \in GenerateRefs, id \in Ids :
            GenerateSucceeds(c, url, id, Now) => prompt' = ""
       /\ \A c \in BagToSet(genCalls), message \in ErrMessages :
            GenerateFails(c, message) => prompt' = prompt
       /\ HandleGenerate => prompt' = prompt]_vars

\* C16 witness: a generate call is in flight and the prompt has since been
\* retyped to a text that is not the submitted one.
C16_Witness ==
    /\ Mounted
    /\ isGenerating
    /\ \E c \in BagToSet(genCalls) : c.prompt = " fox" /\ prompt = " "

\* C17: in every state of the mounted application isEditingId is X exactly
\* when an edit call for the record with id X is outstanding; it is never
\* none while an edit call is in flight and never the id of a record with
\* no edit in flight.
C17_EditingIdIffEditOutstanding ==
    Mounted =>
        \A id \in Ids :
            (isEditingId = Some(id)) <=> (\E c \in BagToSet(editCalls) : c.id = id)

\* Property helper: the target of the in-flight edit c has been cleared.
\* The target was restored from storage (its timestamp is before Now) and
\* images holds only records generated since and never edited, so no record
\* of images is the target or an edited copy of it.
TargetCleared(c) ==
    /\ c.targetImage.timestamp < Now
    /\ \A j \in 1..Len(images.v) :
           images.v[j].timestamp = Now /\ images.v[j].url \in GenerateRefs

\* C18: a confirmed clearHistory cancels no call in flight: when an edit
\* whose target has been cleared returns, images is left as it is (no record
\* comes back and none is changed), and when a generation returns its record
\* is put in front of what images then holds.
C18_ClearedEditChangesNothing ==
    [][/\ \A c \in BagToSet(editCalls), newUrl \in EditRefs :
            (TargetCleared(c) /\ EditSucceeds(c, newUrl, Now)) => images' = images
       /\ \A c \in BagToSet(genCalls), url \in GenerateRefs, id \in Ids :
            GenerateSucceeds(c, url, id, Now)
               => images'.v = <<GeneratedImage(id, url, c.prompt, Now)>> \o images.v]_vars

====
